---- MODULE Spec2Model ----
(***************************************************************************)
(* SmartIR: command resolution, exclusive transmission and power-sensor    *)
(* reconciliation of the fan, light and media-player entities              *)
(* (custom_components/smartir).                                            *)
(*                                                                         *)
(* One device instance is modelled.  Its configuration (entity kind,       *)
(* command tree, power sensor) is drawn in Init and never changes.         *)
(* A step of the model is one run of the event loop: a coroutine runs      *)
(* from one suspension point (waiting for the lock, awaiting               *)
(* controller.send, awaiting asyncio.sleep) to the next, a sensor event    *)
(* is handled, or the verification timer fires.                            *)
(*                                                                         *)
(* Class composition, as written in the source: SmartIRFan (fan.py:55),    *)
(* SmartIRLight (light.py:58) and SmartIRMediaPlayer (media_player.py:54)  *)
(* derive from the host framework's entity classes only.  They call        *)
(* SmartIR.__init__ on themselves, so they carry SmartIR's attributes, but *)
(* SmartIR's methods are not theirs: super().async_added_to_hass() never   *)
(* reaches SmartIR.async_added_to_hass (no sensor subscription), and       *)
(* self._async_power_sensor_check_schedule raises AttributeError.  The     *)
(* methods of class SmartIR act on an entity that derives from it; the     *)
(* only such entity of the repository is the climate entity, whose file    *)
(* is not among the sources, so its request is modelled from the           *)
(* specification (kind "climate").                                         *)
(***************************************************************************)
EXTENDS Integers, Sequences, FiniteSets, TLC

VARIABLES
    kind,           \* which entity class the device instance is
    commands,       \* self._commands: the device's command tree (a dict)
    power_sensor,   \* self._power_sensor is configured (truthy)
    dev,            \* DeviceState: _state, _on_by_remote and the domain attributes
    sensor,         \* hass.states.get(self._power_sensor).state, None when absent
    check_expect,   \* self._power_sensor_check_expect
    check_cancel,   \* self._power_sensor_check_cancel: handle of the pending timer, 0 for None
    timers,         \* delayed callbacks pending in the event loop (async_call_later)
    lock,           \* owner of self._temp_lock, 0 when free
    waiters,        \* coroutines suspended in self._temp_lock.acquire(), in arrival order
    task,           \* per caller: the request coroutine it runs and where it is suspended
    last,           \* the step just taken: its handler and notifications; for a callback
                    \* also its inputs and the DeviceState before it
    call,           \* a helper function taken on its own: its arguments and its result
    removed         \* the entity has been removed from Home Assistant

vars == <<kind, commands, power_sensor, dev, sensor, check_expect, check_cancel,
          timers, lock, waiters, task, last, call, removed>>

config == <<kind, commands, power_sensor>>

----------------------------------------------------------------------------
(* Bounds of the model *)

\* number of logically concurrent callers of one device
NumTasks == 2

\* longest media_id (digits) given to play_media
MaxDigits == 2

Tasks == 1..NumTasks

----------------------------------------------------------------------------
(* Values *)

STATE_ON == "on"

STATE_OFF == "off"

STATE_UNKNOWN == "unknown"

STATE_UNAVAILABLE == "unavailable"

\* Python's None where the other values are strings
None == "None"

\* Python's None where the other values are numbers
NoInt == 0 - 1

DIRECTION_FORWARD == "forward"

DIRECTION_REVERSE == "reverse"

OSCILLATING == "oscillate"

CMD_BRIGHTNESS_INCREASE == "brighten"

CMD_BRIGHTNESS_DECREASE == "dim"

CMD_COLOR_MODE_COLDER == "colder"

CMD_COLOR_MODE_WARMER == "warmer"

CMD_POWER_ON == "on"

CMD_POWER_OFF == "off"

CMD_NIGHTLIGHT == "night"

CMD_COLOR_TEMPERATURE == "colorTemperature"

CMD_BRIGHTNESS == "brightness"

----------------------------------------------------------------------------
(* Command trees: a node is a leaf code (a str) or a branch (a dict) *)

Leaf(c) == [leaf |-> TRUE, code |-> c, kids |-> <<>>]

Branch(f) == [leaf |-> FALSE, code |-> "", kids |-> f]

\* a fan with "off", oscillation and speed codes, without direction
FanCommandsFull ==
    ("off" :> Leaf("FAN_OFF")) @@ ("oscillate" :> Leaf("FAN_OSC"))
    @@ ("default" :> Branch(("low" :> Leaf("FAN_LOW")) @@ ("high" :> Leaf("FAN_HIGH"))))

\* a fan with both directions, without "off" and oscillation; reverse has no "high" code
FanCommandsDir ==
    ("forward" :> Branch(("low" :> Leaf("FAN_FWD_LOW")) @@ ("high" :> Leaf("FAN_FWD_HIGH"))))
    @@ ("reverse" :> Branch(("low" :> Leaf("FAN_REV_LOW"))))

\* a media player whose "on" and "off" are one toggle code; no "mute", no "Channel 2"
MediaCommandsToggle ==
    ("on" :> Leaf("TV_POWER")) @@ ("off" :> Leaf("TV_POWER"))
    @@ ("volumeUp" :> Leaf("TV_VOL_UP"))
    @@ ("sources" :> Branch(("HDMI" :> Leaf("TV_HDMI")) @@ ("Channel 1" :> Leaf("TV_CH1"))))

\* a media player with separate "on" and "off" codes
MediaCommandsSplit ==
    ("on" :> Leaf("TV_ON")) @@ ("off" :> Leaf("TV_OFF"))
    @@ ("volumeUp" :> Leaf("TV_VOL_UP")) @@ ("mute" :> Leaf("TV_MUTE"))
    @@ ("sources" :> Branch(("HDMI" :> Leaf("TV_HDMI")) @@ ("Channel 1" :> Leaf("TV_CH1"))
                            @@ ("Channel 2" :> Leaf("TV_CH2"))))

\* a light driven by relative pulses
LightCommandsStep ==
    ("on" :> Leaf("L_ON")) @@ ("off" :> Leaf("L_OFF"))
    @@ ("brighten" :> Leaf("L_BRIGHTEN")) @@ ("dim" :> Leaf("L_DIM"))
    @@ ("colder" :> Leaf("L_COLDER")) @@ ("warmer" :> Leaf("L_WARMER"))

\* a light with absolute brightness codes and a night light, no colour temperature
LightCommandsAbs ==
    ("on" :> Leaf("L_ON")) @@ ("off" :> Leaf("L_OFF")) @@ ("night" :> Leaf("L_NIGHT"))
    @@ ("brightness" :> Branch(("128" :> Leaf("L_B128")) @@ ("255" :> Leaf("L_B255"))))

\* a light without power codes: it is switched on by setting its brightness
LightCommandsNoPower ==
    ("brighten" :> Leaf("L_BRIGHTEN")) @@ ("dim" :> Leaf("L_DIM"))

ClimateCommands ==
    ("on" :> Leaf("AC_ON")) @@ ("off" :> Leaf("AC_OFF"))

\* device_data["speed"]
speed_list == <<"low", "high">>

\* device_data["brightness"]
brightnesses == <<64, 128, 255>>

\* device_data["colorTemperature"]
colortemps == <<2700, 4000, 6500>>

\* self._brightness of a light that supports brightness, as constructed
DefaultBrightness == 100

----------------------------------------------------------------------------
(* Helpers *)

\* homeassistant.util.percentage.percentage_to_ordered_list_item: the first item
\* whose upper bound (position * 100) // len reaches the percentage
percentage_to_ordered_list_item(ordered_list, percentage) ==
    LET n == Len(ordered_list)
        fits == {i \in 1..n : percentage <= (i * 100) \div n}
    IN  IF fits = {} THEN ordered_list[n]
        ELSE ordered_list[CHOOSE i \in fits : \A j \in fits : i <= j]

\* homeassistant.util.percentage.ordered_list_item_to_percentage
ordered_list_item_to_percentage(ordered_list, item) ==
    LET n == Len(ordered_list)
        pos == CHOOSE i \in 1..n : ordered_list[i] = item
    IN  (pos * 100) \div n

\* the outcome of closest_match_index when "value - prev_val" is evaluated with
\* value None: TypeError
TypeErr == 0 - 2

\* the loop of closest_match_index from 0-based position index on, prev_val
\* being the entry before it (NoInt for None)
RECURSIVE closest_match_scan(_, _, _, _)
closest_match_scan(value, list, index, prev_val) ==
    IF index >= Len(list) THEN Len(list) - 1
    ELSE LET entry == list[index + 1] IN
         IF entry > (IF value = NoInt THEN 0 ELSE value)
         THEN IF prev_val = NoInt THEN index
              ELSE IF value = NoInt THEN TypeErr
              ELSE IF value - prev_val < entry - value THEN index - 1
              ELSE index
         ELSE closest_match_scan(value, list, index + 1, entry)

\* smartir_helpers.closest_match_index; the result is Python's 0-based index
closest_match_index(value, list) == closest_match_scan(value, list, 0, NoInt)

\* abs(float(entry) - value), the sort key of closest_match_value
abs_diff(entry, value) == IF entry >= value THEN entry - value ELSE value - entry

\* list.insert keeping a stable order: entry goes behind every element whose
\* key is not greater than its own
RECURSIVE insert_sorted(_, _, _)
insert_sorted(entry, temp, value) ==
    IF temp = <<>> THEN <<entry>>
    ELSE IF abs_diff(Head(temp), value) <= abs_diff(entry, value)
    THEN <<Head(temp)>> \o insert_sorted(entry, Tail(temp), value)
    ELSE <<entry>> \o temp

\* sorted(list, key=lambda entry: abs(float(entry) - value)): Python's sort is stable
RECURSIVE sorted(_, _)
sorted(list, value) ==
    IF list = <<>> THEN <<>>
    ELSE insert_sorted(list[Len(list)], sorted(SubSeq(list, 1, Len(list) - 1), value), value)

\* closest_match_value that takes the last of the nearest entries
closest_match_value_last(value, list) ==
    IF value = NoInt \/ Len(list) = 0 THEN NoInt
    ELSE list[CHOOSE i \in 1..Len(list) :
                \A j \in 1..Len(list) :
                    \/ abs_diff(list[i], value) < abs_diff(list[j], value)
                    \/ abs_diff(list[i], value) = abs_diff(list[j], value) /\ j <= i]

\* smartir_helpers.closest_match_value; None is returned as NoInt
closest_match_value(value, list) ==
    IF value = NoInt \/ Len(list) = 0 THEN NoInt
    ELSE LET temp == sorted(list, value) IN
         IF Len(temp) # 0 THEN temp[1] ELSE NoInt

\* the walk of _send_command along one key path; data is the node reached, idx
\* the 1-based position of the key looked up.  The result is the leaf's code,
\* or the key the error message names.
RECURSIVE ResolveFrom(_, _, _)
ResolveFrom(data, keys, idx) ==
    IF ~(~data.leaf /\ keys[idx] \in DOMAIN data.kids)
    THEN [found |-> FALSE, code |-> None, key |-> keys[idx]]
    ELSE IF idx = Len(keys)
    THEN IF ~data.kids[keys[idx]].leaf
         THEN [found |-> FALSE, code |-> None, key |-> keys[idx]]
         ELSE [found |-> TRUE, code |-> data.kids[keys[idx]].code, key |-> None]
    ELSE IF ~data.kids[keys[idx]].leaf
    THEN ResolveFrom(data.kids[keys[idx]], keys, idx + 1)
    ELSE [found |-> FALSE, code |-> None, key |-> keys[idx]]

\* a resolver that looks the first key up and stops there
ResolveFirstKey(keys) == ResolveFrom(Branch(commands), <<keys[1]>>, 1)

\* the code of one key path in the device's command tree
Resolve(keys) == ResolveFrom(Branch(commands), keys, 1)

\* cmd in self._commands
HasCmd(cmd) == cmd \in DOMAIN commands

----------------------------------------------------------------------------
(* Construction *)

\* SmartIR.__init__ followed by the entity's own __init__: the attributes
InitialDev(k, cmds) ==
    LET has(c) == c \in DOMAIN cmds
        colour == has(CMD_COLOR_TEMPERATURE)
                    \/ (has(CMD_COLOR_MODE_COLDER) /\ has(CMD_COLOR_MODE_WARMER))
        bright == has(CMD_NIGHTLIGHT) \/ has(CMD_BRIGHTNESS)
                    \/ (has(CMD_BRIGHTNESS_INCREASE) /\ has(CMD_BRIGHTNESS_DECREASE))
    IN  [state |-> STATE_OFF,
         on_by_remote |-> FALSE,
         speed |-> IF k = "fan" THEN speed_list[1] ELSE None,
         direction |-> IF k # "fan" THEN None
                       ELSE IF has(DIRECTION_REVERSE) /\ has(DIRECTION_FORWARD)
                       THEN DIRECTION_FORWARD ELSE "default",
         oscillating |-> IF k = "fan" /\ has(OSCILLATING) THEN "False" ELSE None,
         brightness |-> IF k = "light" /\ bright THEN DefaultBrightness ELSE NoInt,
         colortemp |-> IF k = "light" /\ colour THEN colortemps[Len(colortemps)] ELSE NoInt,
         source |-> None]

\* SmartIRLight.__init__: self._support_brightness
support_brightness ==
    HasCmd(CMD_NIGHTLIGHT) \/ HasCmd(CMD_BRIGHTNESS)
        \/ (HasCmd(CMD_BRIGHTNESS_INCREASE) /\ HasCmd(CMD_BRIGHTNESS_DECREASE))

\* SmartIRLight.__init__: ColorMode.COLOR_TEMP in self.supported_color_modes
\* (self._colortemp as constructed is truthy)
supports_color_temp ==
    HasCmd(CMD_COLOR_TEMPERATURE)
        \/ (HasCmd(CMD_COLOR_MODE_COLDER) /\ HasCmd(CMD_COLOR_MODE_WARMER))

\* the device configurations the model draws from: entity kind, command tree,
\* power sensor configured
Profiles ==
    {<<"fan", FanCommandsFull, FALSE>>, <<"fan", FanCommandsDir, FALSE>>,
     <<"fan", FanCommandsFull, TRUE>>,
     <<"media_player", MediaCommandsToggle, FALSE>>,
     <<"media_player", MediaCommandsToggle, TRUE>>,
     <<"media_player", MediaCommandsSplit, FALSE>>,
     <<"light", LightCommandsStep, FALSE>>, <<"light", LightCommandsAbs, FALSE>>,
     <<"light", LightCommandsNoPower, TRUE>>,
     <<"climate", ClimateCommands, TRUE>>, <<"climate", ClimateCommands, FALSE>>}

\* what the power sensor's entity can report
Readings == {STATE_ON, STATE_OFF, STATE_UNAVAILABLE}

\* DeviceState where there is none to speak of
NoDev ==
    [state |-> None, on_by_remote |-> FALSE, speed |-> None, direction |-> None,
     oscillating |-> None, brightness |-> NoInt, colortemp |-> NoInt, source |-> None]

\* a caller that runs no request.  Of a request the record keeps its arguments
\* and locals, and what is known of its run: failed (controller.send raised),
\* unresolved (a code was missing), raised (an exception left the request),
\* dev0 (DeviceState when it was issued), behind (the requests in flight when it
\* was issued and still in flight), alone (no other request was in flight and
\* no sensor event arrived since it was issued), checked (a verification check
\* fired since it was issued)
IdleTask ==
    [pc |-> "idle", op |-> "none",
     state |-> None, speed |-> None, direction |-> None, oscillate |-> None,
     commands |-> <<>>,
     has_ct |-> FALSE, ct |-> NoInt, has_br |-> FALSE, br |-> NoInt,
     part |-> "none", code |-> None, count |-> 0, idx |-> 0, did_something |-> FALSE,
     failed |-> FALSE, unresolved |-> FALSE, raised |-> FALSE,
     dev0 |-> NoDev, behind |-> {}, alone |-> TRUE, checked |-> FALSE]

NoStep ==
    [op |-> "init", task |-> 0, pre |-> NoDev, notified |-> 0, done |-> None,
     cancelled |-> {},
     old |-> None, new |-> None, expected |-> None, observed |-> None,
     scheduled |-> None]

\* no helper function is taken on its own
NoCall ==
    [fn |-> "none", pending |-> FALSE, keys |-> <<>>, value |-> NoInt, target |-> NoInt,
     list |-> <<>>, result |-> None]

Init ==
    /\ \E p \in Profiles :
          /\ kind = p[1]
          /\ commands = p[2]
          /\ dev = InitialDev(p[1], p[2])
          /\ last = NoStep
          /\ power_sensor = p[3]
    /\ sensor \in (IF power_sensor THEN {STATE_ON, STATE_OFF} ELSE {None})
    /\ check_expect = None
    /\ check_cancel = 0
    /\ timers = {}
    /\ lock = 0
    /\ waiters = <<>>
    /\ task = [t \in Tasks |-> IdleTask]
    /\ call = NoCall
    /\ removed = FALSE

----------------------------------------------------------------------------
(* The part of the state a coroutine or callback works on, and what it   *)
(* leaves: the resulting world, and for a request its coroutine's state. *)

World ==
    [dev |-> dev, expect |-> check_expect, cancel |-> check_cancel, timers |-> timers,
     lock |-> lock, waiters |-> waiters, notified |-> 0, done |-> None]

\* self.async_write_ha_state(): one notification to the state sink
WriteHaState(w) == [w EXCEPT !.notified = @ + 1]

\* a command sequence that sets power to state has been transmitted in full
Done(state, w) == [w EXCEPT !.done = state]

\* asyncio.Lock.acquire that looks at the waiters only, not at the owner
LockFreeIgnoresOwner(w) == w.waiters = <<>>

\* asyncio.Lock.acquire returns without suspending: the lock is free and nobody waits
LockFree(w) == w.lock = 0 /\ w.waiters = <<>>

\* asyncio.Lock.acquire suspends: the caller joins the waiters
Enqueue(t, w) == [w EXCEPT !.waiters = Append(@, t)]

\* a release that frees the lock and wakes nobody
ReleaseWakesNobody(w) == [w EXCEPT !.lock = 0]

\* asyncio.Lock.release, on leaving "async with": the first waiter is woken and owns the lock
Release(w) ==
    IF w.waiters # <<>>
    THEN [w EXCEPT !.lock = Head(w.waiters), !.waiters = Tail(w.waiters)]
    ELSE [w EXCEPT !.lock = 0]

\* the coroutine is suspended in controller.send(code)
Sending(tk, w, code) == [tk |-> [tk EXCEPT !.pc = "send", !.code = code], w |-> w]

\* the coroutine is suspended in self._temp_lock.acquire()
Waiting(t, tk, w) == [tk |-> [tk EXCEPT !.pc = "wait"], w |-> Enqueue(t, w)]

\* the request's coroutine has ended
Returned(tk, w) == [tk |-> [tk EXCEPT !.pc = "idle"], w |-> w]

----------------------------------------------------------------------------
(* class SmartIR: the power sensor *)

\* an unused handle for async_call_later's cancel callback
NewHandle(ts) == CHOOSE h \in 1..(Cardinality(ts) + 1) : \A x \in ts : x.handle # h

\* SmartIR._async_power_sensor_check_schedule without the cancellation of the
\* pending check
PowerSensorCheckScheduleKeepsPending(state, w) ==
    LET h == NewHandle(w.timers)
    IN  [w EXCEPT !.expect = state, !.cancel = h,
                  !.timers = @ \cup {[handle |-> h, scheduled |-> state]}]

\* SmartIR._async_power_sensor_check_schedule: cancel the pending check, then
\* store the expectation and arm the timer.  A timer remembers the state it was
\* scheduled for; the code keeps that only in self._power_sensor_check_expect.
PowerSensorCheckSchedule(state, w) ==
    LET c == IF w.cancel # 0
             THEN [w EXCEPT !.timers = {x \in @ : x.handle # w.cancel},
                            !.cancel = 0, !.expect = None]
             ELSE w
        h == NewHandle(c.timers)
    IN  [c EXCEPT !.expect = state, !.cancel = h,
                  !.timers = @ \cup {[handle |-> h, scheduled |-> state]}]

\* _async_power_sensor_check that takes the observed state whenever it is known
PowerSensorCheckIgnoresExpected(w, current_state) ==
    LET w1 == [w EXCEPT !.cancel = 0, !.expect = None]
    IN  IF current_state \in {STATE_ON, STATE_OFF}
        THEN WriteHaState([w1 EXCEPT !.dev.state = current_state])
        ELSE w1

\* _async_power_sensor_check, the timer's callback; current_state is the sensor's
\* state in hass.states, None when the sensor has none
PowerSensorCheck(w, current_state) ==
    LET expected_state == w.expect
        w1 == [w EXCEPT !.cancel = 0, !.expect = None]
    IN  IF /\ expected_state \in {STATE_ON, STATE_OFF}
           /\ current_state \in {STATE_ON, STATE_OFF}
           /\ expected_state # current_state
        THEN WriteHaState([w1 EXCEPT !.dev.state = current_state])
        ELSE w1

\* _async_power_sensor_changed that marks the device as turned on by the
\* remote and leaves its power state
PowerSensorChangedRemoteOnly(old_state, new_state, w) ==
    IF new_state = None THEN w
    ELSE IF old_state # None /\ new_state = old_state THEN w
    ELSE IF new_state = STATE_ON /\ w.dev.state # STATE_ON
    THEN WriteHaState([w EXCEPT !.dev.on_by_remote = TRUE])
    ELSE IF new_state = STATE_OFF
    THEN WriteHaState([w EXCEPT !.dev.on_by_remote = FALSE, !.dev.state = STATE_OFF])
    ELSE WriteHaState(w)

\* _async_power_sensor_changed that does not look at the device's own state
PowerSensorChangedAlwaysRemote(old_state, new_state, w) ==
    IF new_state = None THEN w
    ELSE IF old_state # None /\ new_state = old_state THEN w
    ELSE IF new_state = STATE_ON
    THEN WriteHaState([w EXCEPT !.dev.state = STATE_ON, !.dev.on_by_remote = TRUE])
    ELSE IF new_state = STATE_OFF
    THEN WriteHaState([w EXCEPT !.dev.on_by_remote = FALSE, !.dev.state = STATE_OFF])
    ELSE WriteHaState(w)

\* _async_power_sensor_changed that keeps on_by_remote when the sensor reports off
PowerSensorChangedKeepsRemote(old_state, new_state, w) ==
    IF new_state = None THEN w
    ELSE IF old_state # None /\ new_state = old_state THEN w
    ELSE IF new_state = STATE_ON /\ w.dev.state # STATE_ON
    THEN WriteHaState([w EXCEPT !.dev.state = STATE_ON, !.dev.on_by_remote = TRUE])
    ELSE IF new_state = STATE_OFF
    THEN WriteHaState([w EXCEPT !.dev.state = STATE_OFF])
    ELSE WriteHaState(w)

\* _async_power_sensor_changed without the comparison of the two readings
PowerSensorChangedNoDedup(old_state, new_state, w) ==
    IF new_state = None THEN w
    ELSE IF new_state = STATE_ON /\ w.dev.state # STATE_ON
    THEN WriteHaState([w EXCEPT !.dev.state = STATE_ON, !.dev.on_by_remote = TRUE])
    ELSE IF new_state = STATE_OFF
    THEN WriteHaState([w EXCEPT !.dev.on_by_remote = FALSE, !.dev.state = STATE_OFF])
    ELSE WriteHaState(w)

\* SmartIR._async_power_sensor_changed.  self._async_update_hvac_action() is the
\* deriving entity's; it touches none of the attributes modelled.
PowerSensorChanged(old_state, new_state, w) ==
    IF new_state = None THEN w
    ELSE IF old_state # None /\ new_state = old_state THEN w
    ELSE IF new_state = STATE_ON /\ w.dev.state # STATE_ON
    THEN WriteHaState([w EXCEPT !.dev.state = STATE_ON, !.dev.on_by_remote = TRUE])
    ELSE IF new_state = STATE_OFF
    THEN WriteHaState([w EXCEPT !.dev.on_by_remote = FALSE, !.dev.state = STATE_OFF])
    ELSE WriteHaState(w)

\* SmartIR.async_added_to_hass subscribes the handler; it runs for an entity
\* whose class derives from SmartIR
Subscribed == power_sensor /\ kind = "climate"

----------------------------------------------------------------------------
(* SmartIRFan *)

\* the code _send_command looks up for its arguments, None when it is missing
FanCode(state, speed, direction, oscillate) ==
    IF state = STATE_OFF
    THEN IF HasCmd("off") THEN commands["off"].code ELSE None
    ELSE IF oscillate = "True"
    THEN IF HasCmd("oscillate") THEN commands["oscillate"].code ELSE None
    ELSE IF /\ HasCmd(direction)
            /\ ~commands[direction].leaf
            /\ speed \in DOMAIN commands[direction].kids
    THEN commands[direction].kids[speed].code
    ELSE None

\* SmartIRFan._send_command once it owns the lock, up to controller.send.
\* self._async_power_sensor_check_schedule is no attribute of a SmartIRFan:
\* the call raises AttributeError outside the try block and the request ends.
FanLocked(t, tk, w) ==
    IF power_sensor /\ w.dev.state # tk.state
    THEN Returned([tk EXCEPT !.raised = TRUE], Release(w))
    ELSE LET code == FanCode(tk.state, tk.speed, tk.direction, tk.oscillate) IN
         IF code = None
         THEN Returned([tk EXCEPT !.unresolved = TRUE], Release(w))
         ELSE Sending(tk, w, code)

\* SmartIRFan._send_command from its call to its first suspension
FanSendCommand(t, tk, w) ==
    IF LockFree(w) THEN FanLocked(t, tk, [w EXCEPT !.lock = t]) ELSE Waiting(t, tk, w)

\* SmartIRFan._send_command after asyncio.sleep: the attributes are set, the
\* state is written, the lock released
FanSlept(t, tk, w) ==
    Returned(tk, Release(WriteHaState(
        [Done(tk.state, w) EXCEPT !.dev.state = tk.state, !.dev.speed = tk.speed,
                  !.dev.on_by_remote = FALSE, !.dev.direction = tk.direction,
                  !.dev.oscillating = tk.oscillate])))

\* _send_command whose exception leaves the lock with the request
FanRaisedKeepsLock(t, tk, w) == Returned(tk, w)

\* SmartIRFan._send_command when controller.send raises: logged, lock released
FanRaised(t, tk, w) == Returned(tk, Release(w))

----------------------------------------------------------------------------
(* The climate entity, the entity deriving from SmartIR: its power request *)

\* _send_command of the climate entity once it owns the lock: schedule the
\* verification when the power state changes, then transmit
ClimateLocked(t, tk, w) ==
    LET w1 == IF power_sensor /\ w.dev.state # tk.state
              THEN PowerSensorCheckSchedule(tk.state, w) ELSE w
    IN  IF HasCmd(tk.state) THEN Sending(tk, w1, commands[tk.state].code)
        ELSE Returned([tk EXCEPT !.unresolved = TRUE], Release(w1))

ClimateSendCommand(t, tk, w) ==
    IF LockFree(w) THEN ClimateLocked(t, tk, [w EXCEPT !.lock = t]) ELSE Waiting(t, tk, w)

\* full success: the power state is set and on_by_remote cleared
ClimateSlept(t, tk, w) ==
    Returned(tk, Release(WriteHaState(
        [Done(tk.state, w) EXCEPT !.dev.state = tk.state, !.dev.on_by_remote = FALSE])))

ClimateRaised(t, tk, w) == Returned(tk, Release(w))

----------------------------------------------------------------------------
(* SmartIRMediaPlayer *)

\* a first part of _send_command that sends the power code whatever the state
MediaPowerAlwaysSends(state, current) ==
    LET mine == IF state = STATE_OFF THEN "off" ELSE "on"
    IN  IF HasCmd(mine) THEN [act |-> "send", code |-> commands[mine].code]
        ELSE [act |-> "raise", code |-> None]

\* the first part of _send_command: skip the power code when "on" and "off" are
\* one code and the device is in the requested state, else send it.  The
\* lookup self._commands[...] of a key the tree lacks raises KeyError.
MediaPower(state, current) ==
    LET other == IF state = STATE_OFF THEN "on" ELSE "off"
        mine == IF state = STATE_OFF THEN "off" ELSE "on"
    IN  IF HasCmd(other) /\ commands[other].leaf
        THEN IF ~HasCmd(mine) THEN [act |-> "raise", code |-> None]
             ELSE IF commands[other] = commands[mine] /\ current = state
             THEN [act |-> "skip", code |-> None]
             ELSE [act |-> "send", code |-> commands[mine].code]
        ELSE IF HasCmd(mine) THEN [act |-> "send", code |-> commands[mine].code]
        ELSE [act |-> "raise", code |-> None]

\* the end of _send_command: state and on_by_remote are set, the state written
MediaCommit(t, tk, w) ==
    Returned(tk, Release(WriteHaState(
        [Done(tk.state, w) EXCEPT !.dev.state = tk.state, !.dev.on_by_remote = FALSE])))

\* "for keys in commands" from the i-th key path on: the path is resolved when
\* its turn comes, and an unresolved path ends the request
MediaNext(t, tk, w, i) ==
    IF i > Len(tk.commands) THEN MediaCommit(t, tk, w)
    ELSE LET r == Resolve(tk.commands[i]) IN
         IF ~r.found THEN Returned([tk EXCEPT !.unresolved = TRUE], Release(w))
         ELSE Sending([tk EXCEPT !.part = "cmd", !.idx = i], w, r.code)

\* what follows the power code: nothing for "off", the key paths otherwise
MediaAfterPower(t, tk, w) ==
    IF tk.state = STATE_OFF THEN MediaCommit(t, tk, w) ELSE MediaNext(t, tk, w, 1)

\* SmartIRMediaPlayer._send_command once it owns the lock.
\* self._async_power_sensor_check_schedule is no attribute of a
\* SmartIRMediaPlayer: the call raises AttributeError outside the try block.
MediaLocked(t, tk, w) ==
    IF power_sensor /\ w.dev.state # tk.state
    THEN Returned([tk EXCEPT !.raised = TRUE], Release(w))
    ELSE LET p == MediaPower(tk.state, w.dev.state) IN
         IF p.act = "raise" THEN Returned([tk EXCEPT !.raised = TRUE], Release(w))
         ELSE IF p.act = "skip" THEN MediaAfterPower(t, tk, w)
         ELSE Sending([tk EXCEPT !.part = "power"], w, p.code)

MediaSendCommand(t, tk, w) ==
    IF LockFree(w) THEN MediaLocked(t, tk, [w EXCEPT !.lock = t]) ELSE Waiting(t, tk, w)

\* _send_command after asyncio.sleep
MediaSlept(t, tk, w) ==
    IF tk.part = "power" THEN MediaAfterPower(t, tk, w)
    ELSE MediaNext(t, tk, w, tk.idx + 1)

\* _send_command when controller.send raises: logged, lock released
MediaRaised(t, tk, w) == Returned(tk, Release(w))

\* "".join(digits)
RECURSIVE Join(_)
Join(digits) == IF digits = <<>> THEN "" ELSE Head(digits) \o Join(Tail(digits))

----------------------------------------------------------------------------
(* SmartIRLight *)

\* send_remote_command once it owns the lock
LightLocked(t, tk, w) == Sending(tk, [w EXCEPT !.dev.on_by_remote = FALSE], tk.code)

\* send_remote_command(remote_cmd, count); next is where async_turn_on or
\* async_turn_off goes on when it returns
LightRemote(t, tk, w, remote_cmd, count, next) ==
    LET tk1 == [tk EXCEPT !.code = remote_cmd, !.count = count, !.part = next]
    IN  IF LockFree(w) THEN LightLocked(t, tk1, [w EXCEPT !.lock = t])
        ELSE Waiting(t, tk1, w)

\* the end of async_turn_on and of async_turn_off's branch
LightEnd(t, tk, w) == Returned(tk, WriteHaState(w))

\* async_turn_on, "if not did_something and not self._on_by_remote"
LightFinal(t, tk, w) ==
    IF ~tk.did_something /\ ~w.dev.on_by_remote
    THEN LET w1 == [w EXCEPT !.dev.state = STATE_ON] IN
         IF HasCmd(CMD_POWER_ON)
         THEN LightRemote(t, tk, w1, commands[CMD_POWER_ON].code, 1, "end")
         ELSE LightEnd(t, [tk EXCEPT !.unresolved = TRUE], w1)
    ELSE LightEnd(t, tk, w)

\* the coroutine runs on without suspending
Going(tk, w) == [go |-> TRUE, tk |-> tk, w |-> w]

\* the coroutine is suspended, or has ended, as r says
Gone(r) == [go |-> FALSE, tk |-> r.tk, w |-> r.w]

\* a step plan that resyncs at a boundary whatever the distance
StepPlanAlwaysResyncs(old, new, n) ==
    [decrease |-> new - old < 0,
     steps |-> IF new = n - 1 \/ new = 0 THEN n
               ELSE IF new - old < 0 THEN old - new ELSE new - old]

\* a step plan that never resyncs
StepPlanNeverResyncs(old, new, n) ==
    [decrease |-> new - old < 0,
     steps |-> IF new - old < 0 THEN old - new ELSE new - old]

\* a step plan that always pulses the increase command
StepPlanAlwaysIncreases(old, new, n) ==
    LET steps == IF new - old < 0 THEN old - new ELSE new - old
    IN  [decrease |-> FALSE,
         steps |-> IF steps > 0 /\ (new = n - 1 \/ new = 0) THEN n ELSE steps]

\* the relative steps of async_turn_on from index old to index new on a scale
\* of n entries: the command (decrease or increase) and how often it is sent;
\* "if steps > 0 and cmd" guards the resync to the full range at a boundary
StepPlan(old, new, n) ==
    LET steps == IF new - old < 0 THEN old - new ELSE new - old
    IN  [decrease |-> new - old < 0,
         steps |-> IF steps > 0 /\ (new = n - 1 \/ new = 0) THEN n ELSE steps]

\* one ordered scale of async_turn_on: a direct code of the scale's command
\* dict when there is one, else relative pulses; attr is the attribute set.
\* The coroutine goes on with the next part at once when nothing is sent.
LightScale(t, tk, w, current, target, scale, direct, dec, inc, attr, next) ==
    LET old == closest_match_index(current, scale)
        new == closest_match_index(target, scale)
        tk1 == [tk EXCEPT !.did_something = TRUE]
    IN  IF old < 0 \/ new < 0 THEN Gone(Returned([tk1 EXCEPT !.raised = TRUE], w))
        ELSE
        LET final == ToString(scale[new + 1])
            set == [w EXCEPT !.dev[attr] = scale[new + 1]]
            plan == StepPlan(old, new, Len(scale))
            cmd == IF plan.decrease THEN dec ELSE inc
        IN  IF HasCmd(direct) /\ ~commands[direct].leaf
               /\ final \in DOMAIN commands[direct].kids
            THEN Gone(LightRemote(t, tk1, set, commands[direct].kids[final].code, 1, next))
            ELSE IF plan.steps > 0
            THEN IF HasCmd(cmd)
                 THEN Gone(LightRemote(t, tk1, set, commands[cmd].code, plan.steps, next))
                 ELSE Going([tk1 EXCEPT !.unresolved = TRUE], set)
            ELSE Going(tk1, w)

\* async_turn_on, "if ATTR_BRIGHTNESS in params and self._support_brightness"
LightBrightness(t, tk, w) ==
    IF tk.has_br /\ support_brightness
    THEN IF tk.br = 1 /\ HasCmd(CMD_NIGHTLIGHT)
         THEN LightRemote(t, [tk EXCEPT !.did_something = TRUE],
                          [w EXCEPT !.dev.brightness = 1, !.dev.state = STATE_ON],
                          commands[CMD_NIGHTLIGHT].code, 1, "final")
         ELSE IF brightnesses # <<>>
         THEN LET s == LightScale(t, tk, w, w.dev.brightness, tk.br, brightnesses,
                                  CMD_BRIGHTNESS, CMD_BRIGHTNESS_DECREASE,
                                  CMD_BRIGHTNESS_INCREASE, "brightness", "final")
              IN  IF s.go THEN LightFinal(t, s.tk, s.w) ELSE [tk |-> s.tk, w |-> s.w]
         ELSE LightFinal(t, tk, w)
    ELSE LightFinal(t, tk, w)

\* async_turn_on, "if ATTR_COLOR_TEMP_KELVIN in params and ColorMode.COLOR_TEMP in
\* self.supported_color_modes"
LightColorTemp(t, tk, w) ==
    IF tk.has_ct /\ supports_color_temp
    THEN LET s == LightScale(t, tk, w, w.dev.colortemp, tk.ct, colortemps,
                             CMD_COLOR_TEMPERATURE, CMD_COLOR_MODE_WARMER,
                             CMD_COLOR_MODE_COLDER, "colortemp", "br")
         IN  IF s.go THEN LightBrightness(t, s.tk, s.w) ELSE [tk |-> s.tk, w |-> s.w]
    ELSE LightBrightness(t, tk, w)

\* async_turn_on from its call: "Turn the light on if off"
LightTurnOnFrom(t, tk, w) ==
    IF w.dev.state # STATE_ON /\ ~w.dev.on_by_remote
    THEN LET w1 == [w EXCEPT !.dev.state = STATE_ON] IN
         IF HasCmd(CMD_POWER_ON)
         THEN LightRemote(t, [tk EXCEPT !.did_something = TRUE], w1,
                          commands[CMD_POWER_ON].code, 1, "ct")
         ELSE LightColorTemp(t,
                 [tk EXCEPT !.has_ct = TRUE, !.ct = IF tk.has_ct THEN @ ELSE w.dev.colortemp,
                            !.has_br = TRUE, !.br = IF tk.has_br THEN @ ELSE w.dev.brightness],
                 w1)
    ELSE LightColorTemp(t, tk, w)

\* async_turn_off from its call
LightTurnOffFrom(t, tk, w) ==
    IF w.dev.state # STATE_OFF
    THEN LET w1 == [w EXCEPT !.dev.state = STATE_OFF] IN
         IF HasCmd(CMD_POWER_OFF)
         THEN LightRemote(t, tk, w1, commands[CMD_POWER_OFF].code, 1, "end")
         ELSE LightEnd(t, [tk EXCEPT !.unresolved = TRUE], w1)
    ELSE Returned(tk, w)

\* where async_turn_on / async_turn_off goes on after send_remote_command
LightContinue(t, tk, w) ==
    CASE tk.part = "ct" -> LightColorTemp(t, tk, w)
      [] tk.part = "br" -> LightBrightness(t, tk, w)
      [] tk.part = "final" -> LightFinal(t, tk, w)
      [] OTHER -> LightEnd(t, tk, w)

\* the power a light's code sets: the codes of CMD_POWER_ON and CMD_NIGHTLIGHT
\* go with _state = STATE_ON, the code of CMD_POWER_OFF with STATE_OFF
LightPower(code) ==
    IF HasCmd(CMD_POWER_ON) /\ commands[CMD_POWER_ON].code = code THEN STATE_ON
    ELSE IF HasCmd(CMD_NIGHTLIGHT) /\ commands[CMD_NIGHTLIGHT].code = code THEN STATE_ON
    ELSE IF HasCmd(CMD_POWER_OFF) /\ commands[CMD_POWER_OFF].code = code THEN STATE_OFF
    ELSE None

\* send_remote_command after asyncio.sleep: the next pulse, or the lock is released
LightSlept(t, tk, w) ==
    IF tk.count > 1 THEN Sending([tk EXCEPT !.count = @ - 1], w, tk.code)
    ELSE LightContinue(t, tk, Release(Done(LightPower(tk.code), w)))

\* send_remote_command when controller.send raises: the exception is logged
\* there, the lock released, and the caller goes on
LightRaised(t, tk, w) == LightContinue(t, tk, Release(w))

----------------------------------------------------------------------------
(* Steps *)

\* the record of a step of caller t's coroutine that leaves the world w;
\* cancelled are the pending checks the step has cancelled, done the target of
\* the power-setting sequence the step has completed
Step(op, t, w) ==
    [op |-> op, task |-> t, pre |-> w.dev, notified |-> w.notified, done |-> w.done,
     cancelled |-> timers \ w.timers,
     old |-> None, new |-> None, expected |-> None, observed |-> None,
     scheduled |-> None]

\* the world a step leaves
Commit(w) ==
    /\ dev' = w.dev
    /\ check_expect' = w.expect
    /\ check_cancel' = w.cancel
    /\ timers' = w.timers
    /\ lock' = w.lock
    /\ waiters' = w.waiters

\* a caller calls an operation of the entity: the coroutine starts with the
\* arguments in tk and runs to its first suspension or to its end (r).  What
\* is remembered of the requests that returned before is dropped.
Call(t, op, r) ==
    /\ task' = [u \in Tasks |->
                  IF u = t THEN r.tk
                  ELSE IF task[u].pc = "idle" THEN IdleTask
                  ELSE [task[u] EXCEPT !.alone = FALSE]]
    /\ Commit(r.w)
    /\ last' = Step(op, t, r.w)
    /\ UNCHANGED <<config, sensor, call, removed>>

\* a new request, of an entity that is registered, runs as the first coroutine
\* that is not in use
Free(t) == ~removed /\ task[t].pc = "idle" /\ \A u \in 1..(t - 1) : task[u].pc # "idle"

\* the arguments record of a new request of caller t
Request(t, op) ==
    [IdleTask EXCEPT !.op = op,
                     !.behind = {u \in Tasks \ {t} : task[u].pc # "idle"},
                     !.alone = \A u \in Tasks \ {t} : task[u].pc = "idle",
                     !.dev0 = dev]

\* the event loop resumes the coroutine of caller t, which runs to its next
\* suspension or to its end (r)
Resume(t, op, r) ==
    /\ task' = [u \in Tasks |->
                  IF u = t THEN r.tk
                  ELSE IF task[u].pc = "idle" THEN IdleTask
                  ELSE IF r.tk.pc = "idle" THEN [task[u] EXCEPT !.behind = @ \ {t}]
                  ELSE task[u]]
    /\ Commit(r.w)
    /\ last' = Step(op, t, r.w)
    /\ UNCHANGED <<config, sensor, call, removed>>

(* SmartIRFan's operations *)

FanSetPercentage(t, percentage) ==
    /\ kind = "fan" /\ Free(t)
    /\ LET state == IF percentage = 0 THEN STATE_OFF ELSE STATE_ON
           speed == IF percentage = 0 THEN dev.speed
                    ELSE percentage_to_ordered_list_item(speed_list, percentage)
           tk == [Request(t, "set_percentage") EXCEPT
                     !.state = state, !.speed = speed,
                     !.direction = dev.direction, !.oscillate = dev.oscillating]
       IN  Call(t, "set_percentage", FanSendCommand(t, tk, World))

FanTurnOn(t) ==
    /\ kind = "fan" /\ Free(t)
    /\ LET percentage == ordered_list_item_to_percentage(speed_list, dev.speed)
           tk == [Request(t, "turn_on") EXCEPT
                     !.state = IF percentage = 0 THEN STATE_OFF ELSE STATE_ON,
                     !.speed = IF percentage = 0 THEN dev.speed
                               ELSE percentage_to_ordered_list_item(speed_list, percentage),
                     !.direction = dev.direction, !.oscillate = dev.oscillating]
       IN  Call(t, "turn_on", FanSendCommand(t, tk, World))

FanTurnOff(t) ==
    /\ kind = "fan" /\ Free(t)
    /\ LET tk == [Request(t, "turn_off") EXCEPT
                     !.state = STATE_OFF, !.speed = dev.speed,
                     !.direction = dev.direction, !.oscillate = dev.oscillating]
       IN  Call(t, "turn_off", FanSendCommand(t, tk, World))

FanOscillate(t, oscillating) ==
    /\ kind = "fan" /\ Free(t)
    /\ LET tk == [Request(t, "oscillate") EXCEPT
                     !.state = dev.state, !.speed = dev.speed,
                     !.direction = dev.direction, !.oscillate = oscillating]
       IN  IF ~HasCmd(OSCILLATING) THEN Call(t, "oscillate", Returned(tk, World))
           ELSE Call(t, "oscillate", FanSendCommand(t, tk, World))

FanSetDirection(t, direction) ==
    /\ kind = "fan" /\ Free(t)
    /\ LET tk == [Request(t, "set_direction") EXCEPT
                     !.state = dev.state, !.speed = dev.speed,
                     !.direction = direction, !.oscillate = dev.oscillating]
       IN  IF ~(HasCmd(DIRECTION_REVERSE) /\ HasCmd(DIRECTION_FORWARD))
           THEN Call(t, "set_direction", Returned(tk, World))
           ELSE Call(t, "set_direction", FanSendCommand(t, tk, World))

(* SmartIRMediaPlayer's operations *)

MediaTurnOff(t) ==
    /\ kind = "media_player" /\ Free(t)
    /\ LET tk == [Request(t, "turn_off") EXCEPT !.state = STATE_OFF]
       IN  Call(t, "turn_off", MediaSendCommand(t, tk, World))

MediaTurnOn(t) ==
    /\ kind = "media_player" /\ Free(t)
    /\ LET tk == [Request(t, "turn_on") EXCEPT !.state = STATE_ON]
       IN  Call(t, "turn_on", MediaSendCommand(t, tk, World))

\* async_media_previous_track, async_media_next_track, async_volume_down,
\* async_volume_up, async_mute_volume: one key, sent with the current state
MediaKey(t, key) ==
    /\ kind = "media_player" /\ Free(t)
    /\ LET tk == [Request(t, key) EXCEPT !.state = dev.state, !.commands = <<<<key>>>>]
       IN  Call(t, key, MediaSendCommand(t, tk, World))

MediaSelectSource(t, source) ==
    /\ kind = "media_player" /\ Free(t)
    /\ LET tk == [Request(t, "select_source") EXCEPT
                     !.state = dev.state, !.commands = <<<<"sources", source>>>>]
       IN  Call(t, "select_source",
                MediaSendCommand(t, tk, [World EXCEPT !.dev.source = source]))

\* async_play_media with media_type channel and a media_id of digits
MediaPlayMedia(t, media_id) ==
    /\ kind = "media_player" /\ Free(t)
    /\ LET tk == [Request(t, "play_media") EXCEPT
                     !.state = STATE_ON,
                     !.commands = [i \in 1..Len(media_id) |->
                                      <<"sources", "Channel " \o media_id[i]>>]]
       IN  Call(t, "play_media",
                MediaSendCommand(t, tk,
                    [World EXCEPT !.dev.source = "Channel " \o Join(media_id)]))

(* SmartIRLight's operations *)

LightTurnOn(t, has_ct, ct, has_br, br) ==
    /\ kind = "light" /\ Free(t)
    /\ LET tk == [Request(t, "turn_on") EXCEPT
                     !.state = STATE_ON, !.has_ct = has_ct, !.ct = ct,
                     !.has_br = has_br, !.br = br]
       IN  Call(t, "turn_on", LightTurnOnFrom(t, tk, World))

LightTurnOff(t) ==
    /\ kind = "light" /\ Free(t)
    /\ LET tk == [Request(t, "turn_off") EXCEPT !.state = STATE_OFF]
       IN  Call(t, "turn_off", LightTurnOffFrom(t, tk, World))

\* async_toggle: async_turn_on() if the light is not on, else async_turn_off()
LightToggle(t) ==
    /\ kind = "light" /\ Free(t)
    /\ IF dev.state # STATE_ON
       THEN Call(t, "toggle",
                 LightTurnOnFrom(t, [Request(t, "toggle") EXCEPT !.state = STATE_ON], World))
       ELSE Call(t, "toggle",
                 LightTurnOffFrom(t, [Request(t, "toggle") EXCEPT !.state = STATE_OFF], World))

(* the climate entity's power request *)

ClimateSetPower(t, state) ==
    /\ kind = "climate" /\ Free(t)
    /\ LET tk == [Request(t, "set_power") EXCEPT !.state = state]
       IN  Call(t, "set_power", ClimateSendCommand(t, tk, World))

(* the event loop *)

\* the lock was handed to waiter t: it goes on inside "async with"
LockAcquired(t) ==
    /\ task[t].pc = "wait" /\ lock = t
    /\ Resume(t, "locked",
              CASE kind = "fan" -> FanLocked(t, task[t], World)
                [] kind = "media_player" -> MediaLocked(t, task[t], World)
                [] kind = "light" -> LightLocked(t, task[t], World)
                [] OTHER -> ClimateLocked(t, task[t], World))

\* controller.send(code) returns and the coroutine goes on without the delay
SendReturnsSkipsDelay(t) ==
    /\ task[t].pc = "send"
    /\ Resume(t, "sent",
              CASE kind = "fan" -> FanSlept(t, task[t], World)
                [] kind = "media_player" -> MediaSlept(t, task[t], World)
                [] kind = "light" -> LightSlept(t, task[t], World)
                [] OTHER -> ClimateSlept(t, task[t], World))

\* controller.send(code) returns: the code is transmitted; asyncio.sleep follows
SendReturns(t) ==
    /\ task[t].pc = "send"
    /\ Resume(t, "sent",
              [tk |-> [task[t] EXCEPT !.pc = "sleep"],
               w |-> World])

\* controller.send(code) raises
SendRaises(t) ==
    /\ task[t].pc = "send"
    /\ LET tk == [task[t] EXCEPT !.failed = TRUE] IN
       Resume(t, "send_failed",
              CASE kind = "fan" -> FanRaised(t, tk, World)
                [] kind = "media_player" -> MediaRaised(t, tk, World)
                [] kind = "light" -> LightRaised(t, tk, World)
                [] OTHER -> ClimateRaised(t, tk, World))

\* asyncio.sleep(self._delay) is over
SleepReturns(t) ==
    /\ task[t].pc = "sleep"
    /\ Resume(t, "slept",
              CASE kind = "fan" -> FanSlept(t, task[t], World)
                [] kind = "media_player" -> MediaSlept(t, task[t], World)
                [] kind = "light" -> LightSlept(t, task[t], World)
                [] OTHER -> ClimateSlept(t, task[t], World))

\* the power sensor's entity gets the state new_state (None: it is removed); a
\* state_changed event with the old and the new state goes to the subscriber.
\* An event with equal states is a change of the sensor's attributes only.
SensorEvent(new_state) ==
    /\ power_sensor /\ ~removed
    /\ ~(sensor = None /\ new_state = None)
    /\ sensor' = new_state
    /\ LET w == IF Subscribed THEN PowerSensorChanged(sensor, new_state, World) ELSE World
       IN  /\ Commit(w)
           /\ last' = IF Subscribed
                      THEN [Step("sensor", 0, w) EXCEPT
                               !.pre = dev, !.old = sensor, !.new = new_state]
                      ELSE Step("unheard", 0, w)
    /\ task' = [u \in Tasks |->
                  IF task[u].pc = "idle" THEN IdleTask ELSE [task[u] EXCEPT !.alone = FALSE]]
    /\ UNCHANGED <<config, call, removed>>

\* a pending timer expires: _async_power_sensor_check runs
TimerFires(x) ==
    /\ x \in timers
    /\ LET w == PowerSensorCheck([World EXCEPT !.timers = @ \ {x}], sensor)
       IN  /\ Commit(w)
           /\ last' = [Step("check", 0, w) EXCEPT !.pre = dev, !.cancelled = {},
                                                  !.expected = check_expect,
                                                  !.observed = sensor,
                                                  !.scheduled = x.scheduled]
    /\ task' = [u \in Tasks |->
                  IF task[u].op # "none" THEN [task[u] EXCEPT !.checked = TRUE]
                  ELSE task[u]]
    /\ UNCHANGED <<config, sensor, call, removed>>

\* the entity is removed from Home Assistant while no request is running
\* (Entity.async_remove): the callbacks registered with async_on_remove run and
\* async_will_remove_from_hass is awaited.  SmartIR registers no callback and
\* overrides nothing, so the entity's fields and the timers of the event loop
\* stay as they are; no service call reaches the entity afterwards.
Remove ==
    /\ ~removed
    /\ \A t \in Tasks : task[t].pc = "idle"
    /\ removed' = TRUE
    /\ last' = [NoStep EXCEPT !.op = "removed"]
    /\ task' = [t \in Tasks |-> IdleTask]
    /\ UNCHANGED <<config, dev, sensor, check_expect, check_cancel, timers, lock,
                   waiters, call>>

----------------------------------------------------------------------------
(* Inputs *)

Percentages == {0, 50, 100}

MediaKeys == {"volumeUp", "mute"}

Sources == {"HDMI", "Apps"}

\* the channel numbers 1, 12, 121, ... up to MaxDigits digits
MediaIds == {[i \in 1..n |-> IF i % 2 = 1 THEN "1" ELSE "2"] : n \in 1..MaxDigits}

ColorTempTargets == {4000}

BrightnessTargets == {1, 128, 255}

Next ==
    \/ \E t \in Tasks, p \in Percentages : FanSetPercentage(t, p)
    \/ \E t \in Tasks : FanTurnOn(t)
    \/ \E t \in Tasks : FanTurnOff(t)
    \/ \E t \in Tasks, o \in {"True", "False"} : FanOscillate(t, o)
    \/ \E t \in Tasks, d \in {DIRECTION_FORWARD, DIRECTION_REVERSE} : FanSetDirection(t, d)
    \/ \E t \in Tasks : MediaTurnOff(t)
    \/ \E t \in Tasks : MediaTurnOn(t)
    \/ \E t \in Tasks, k \in MediaKeys : MediaKey(t, k)
    \/ \E t \in Tasks, s \in Sources : MediaSelectSource(t, s)
    \/ \E t \in Tasks, m \in MediaIds : MediaPlayMedia(t, m)
    \/ \E t \in Tasks, ct \in ColorTempTargets \cup {NoInt}, br \in BrightnessTargets \cup {NoInt} :
          LightTurnOn(t, ct # NoInt, ct, br # NoInt, br)
    \/ \E t \in Tasks : LightTurnOff(t)
    \/ \E t \in Tasks : LightToggle(t)
    \/ \E t \in Tasks, s \in {STATE_ON, STATE_OFF} : ClimateSetPower(t, s)
    \/ \E t \in Tasks : LockAcquired(t)
    \/ \E t \in Tasks : SendReturns(t)
    \/ \E t \in Tasks : SendRaises(t)
    \/ \E t \in Tasks : SleepReturns(t)
    \/ \E n \in Readings \cup {None} : SensorEvent(n)
    \/ \E x \in timers : TimerFires(x)
    \/ Remove

Spec == Init /\ [][Next]_vars

\* the event loop resumes every coroutine that is ready: the one the lock was
\* handed to, the one whose controller.send has returned or raised (every send
\* is assumed to end), the one whose asyncio.sleep is over
Fairness ==
    \A t \in Tasks :
        /\ WF_vars(LockAcquired(t))
        /\ WF_vars(SendReturns(t) \/ SendRaises(t))
        /\ WF_vars(SleepReturns(t))

\* the three entities whose requests queue on _temp_lock inside their own
\* send path, each with a device file that has every exit of that path: the
\* fan that raises before its try block, the fan and the media player that
\* return on a missing code, the light that sends a counted sequence
LiveProfiles ==
    {<<"fan", FanCommandsFull, TRUE>>, <<"fan", FanCommandsDir, FALSE>>,
     <<"media_player", MediaCommandsToggle, FALSE>>,
     <<"light", LightCommandsAbs, FALSE>>}

InitLive == Init /\ <<kind, commands, power_sensor>> \in LiveProfiles

\* the requests of SmartIRFan, SmartIRMediaPlayer and SmartIRLight and the
\* steps of their coroutines
NextLive ==
    \/ \E t \in Tasks, p \in Percentages : FanSetPercentage(t, p)
    \/ \E t \in Tasks : FanTurnOn(t)
    \/ \E t \in Tasks : FanTurnOff(t)
    \/ \E t \in Tasks, o \in {"True", "False"} : FanOscillate(t, o)
    \/ \E t \in Tasks, d \in {DIRECTION_FORWARD, DIRECTION_REVERSE} : FanSetDirection(t, d)
    \/ \E t \in Tasks : MediaTurnOff(t)
    \/ \E t \in Tasks : MediaTurnOn(t)
    \/ \E t \in Tasks, k \in MediaKeys : MediaKey(t, k)
    \/ \E t \in Tasks, s \in Sources : MediaSelectSource(t, s)
    \/ \E t \in Tasks, m \in MediaIds : MediaPlayMedia(t, m)
    \/ \E t \in Tasks, ct \in ColorTempTargets \cup {NoInt}, br \in BrightnessTargets \cup {NoInt} :
          LightTurnOn(t, ct # NoInt, ct, br # NoInt, br)
    \/ \E t \in Tasks : LightTurnOff(t)
    \/ \E t \in Tasks : LightToggle(t)
    \/ \E t \in Tasks : LockAcquired(t)
    \/ \E t \in Tasks : SendReturns(t)
    \/ \E t \in Tasks : SendRaises(t)
    \/ \E t \in Tasks : SleepReturns(t)

SpecLive == InitLive /\ [][NextLive]_vars /\ Fairness

----------------------------------------------------------------------------
(* The helper functions on their own: the resolver loop of                 *)
(* SmartIRMediaPlayer._send_command and closest_match_index are applied to *)
(* arguments drawn from bounded sets.                                      *)

MaxDepth == 2
MaxPath == 3
MaxScale == 4
MaxEntry == 8
MaxValue == 9
MaxList == 3

\* the keys of the command trees, and the keys a path is made of
TreeKeys == {"on", "off"}
PathKeys == TreeKeys \cup {"x"}
TreeCodes == {"CODE_A", "CODE_B"}

\* the nodes of the command trees of depth d at most: a str, or a dict of nodes
RECURSIVE TreesOfDepth(_)
TreesOfDepth(d) ==
    IF d = 0 THEN {Leaf(c) : c \in TreeCodes}
    ELSE LET sub == TreesOfDepth(d - 1) IN
         sub \cup UNION {{Branch(f) : f \in [S -> sub]} : S \in SUBSET TreeKeys}

\* self._commands is a dict
CommandTrees == {n.kids : n \in {m \in TreesOfDepth(MaxDepth) : ~m.leaf}}

\* "for keys in commands": a non-empty list of keys
Paths == UNION {[1..n -> PathKeys] : n \in 1..MaxPath}

\* the non-empty strictly increasing lists closest_match_index is given
Scales ==
    {s \in UNION {[1..n -> 0..MaxEntry] : n \in 1..MaxScale} :
        \A i \in 1..(Len(s) - 1) : s[i] < s[i + 1]}

\* the values closest_match_index is given: an int, or None
Values == (0..MaxValue) \cup {NoInt}

\* the lists closest_match_value is given: any entries in any order, or none
Lists == UNION {[1..n -> 0..MaxEntry] : n \in 0..MaxList}

InitHelpers ==
    /\ kind = "helpers"
    /\ removed = FALSE
    /\ power_sensor = FALSE
    /\ dev = NoDev
    /\ last = NoStep
    /\ sensor = None
    /\ check_expect = None
    /\ check_cancel = 0
    /\ timers = {}
    /\ lock = 0
    /\ waiters = <<>>
    /\ task = [t \in Tasks |-> IdleTask]
    /\ \/ \E tree \in CommandTrees, keys \in Paths :
            /\ commands = tree
            /\ call = [NoCall EXCEPT !.fn = "resolve", !.pending = TRUE, !.keys = keys]
       \/ \E list \in Scales, value \in Values :
            /\ commands = <<>>
            /\ call = [NoCall EXCEPT !.fn = "closest_match_index", !.pending = TRUE,
                                     !.value = value, !.list = list]
       \/ \E list \in Scales, value \in Values, target \in Values :
            /\ commands = LightCommandsStep
            /\ call = [NoCall EXCEPT !.fn = "light_scale", !.pending = TRUE,
                                     !.value = value, !.target = target, !.list = list]
       \/ \E list \in Lists, value \in Values :
            /\ commands = <<>>
            /\ call = [NoCall EXCEPT !.fn = "closest_match_value", !.pending = TRUE,
                                     !.value = value, !.list = list]

\* the resolver loop runs on the path keys over self._commands
ResolveCalled ==
    /\ call.fn = "resolve" /\ call.pending
    /\ call' = [call EXCEPT !.pending = FALSE, !.result = Resolve(call.keys)]
    /\ UNCHANGED <<config, dev, sensor, check_expect, check_cancel, timers, lock,
                   waiters, task, last, removed>>

\* closest_match_index(value, list) returns
ClosestMatchCalled ==
    /\ call.fn = "closest_match_index" /\ call.pending
    /\ call' = [call EXCEPT !.pending = FALSE,
                            !.result = closest_match_index(call.value, call.list)]
    /\ UNCHANGED <<config, dev, sensor, check_expect, check_cancel, timers, lock,
                   waiters, task, last, removed>>

\* closest_match_value(value, list) returns
ValueMatchCalled ==
    /\ call.fn = "closest_match_value" /\ call.pending
    /\ call' = [call EXCEPT !.pending = FALSE,
                            !.result = closest_match_value(call.value, call.list)]
    /\ UNCHANGED <<config, dev, sensor, check_expect, check_cancel, timers, lock,
                   waiters, task, last, removed>>

\* the brightness part of async_turn_on runs on a light that has the relative
\* commands only, the lock free, with the tracked brightness call.value on the
\* scale call.list and the target call.target
LightScaleCalled ==
    /\ call.fn = "light_scale" /\ call.pending
    /\ call' = [call EXCEPT !.pending = FALSE,
                            !.result = LightScale(1, IdleTask, World, call.value,
                                                  call.target, call.list, CMD_BRIGHTNESS,
                                                  CMD_BRIGHTNESS_DECREASE,
                                                  CMD_BRIGHTNESS_INCREASE, "brightness",
                                                  "final")]
    /\ UNCHANGED <<config, dev, sensor, check_expect, check_cancel, timers, lock,
                   waiters, task, last, removed>>

NextHelpers == ResolveCalled \/ ClosestMatchCalled \/ ValueMatchCalled \/ LightScaleCalled

SpecHelpers == InitHelpers /\ [][NextHelpers]_vars

----------------------------------------------------------------------------
(* Properties *)

\* caller t's coroutine is inside a command sequence: it has entered the
\* serializer's "async with" block and transmits or pauses between codes
InSequence(t) == task[t].pc \in {"send", "sleep"}

\* caller t's request has returned and nothing has happened since but timers
Finished(t) == task[t].pc = "idle" /\ task[t].op # "none"

\* C1: two command sequences handed concurrently to one device's serializer do
\* not interleave: while one of them transmits or pauses between its codes it
\* owns the lock, and no other sequence is transmitting or pausing.
C1_SequencesDoNotInterleave ==
    \A t \in Tasks :
        InSequence(t) => lock = t /\ \A u \in Tasks \ {t} : ~InSequence(u)

\* C1, its case: a sequence of several codes is under way (the pause after a
\* code that is not its last) while another sequence waits for the lock
C1_Witness ==
    \E t, u \in Tasks :
        /\ t # u
        /\ task[u].pc = "wait"
        /\ task[t].pc = "sleep"
        /\ \/ kind = "light" /\ task[t].count > 1
           \/ kind = "media_player" /\ task[t].part = "cmd" /\ task[t].idx < Len(task[t].commands)

\* C2: a request issued while an earlier request of the device still has codes
\* to transmit transmits none of its codes before the earlier request is
\* finished: whenever a request transmits or pauses between its codes, every
\* request that was in flight when it was issued has returned, or has had a
\* transmission fail.
C2_RequestsDoNotOvertake ==
    \A u \in Tasks : InSequence(u) => \A e \in task[u].behind : task[e].failed

\* C3: when controller.send has raised in a request, then once the request has
\* returned (no other request and no sensor event in between) every attribute of
\* DeviceState has the value it had when the request was issued.
C3_FailureLeavesDeviceState ==
    \A t \in Tasks :
        Finished(t) /\ task[t].failed /\ task[t].alone => dev = task[t].dev0

\* a request of caller t whose target power state differs from DeviceState's
\* power when it was issued, on a device with a power sensor; no other request
\* and no sensor event since
PowerChanging(t) ==
    /\ power_sensor
    /\ task[t].op # "none"
    /\ task[t].alone
    /\ task[t].state \in {STATE_ON, STATE_OFF}
    /\ task[t].dev0.state # task[t].state

Mismatch(expected, observed) ==
    /\ expected \in {STATE_ON, STATE_OFF}
    /\ observed \in {STATE_ON, STATE_OFF}
    /\ expected # observed

\* C5: when the verification check fires and the expected and the observed
\* state are both on/off and differ, the power becomes the observed state, the
\* rest of DeviceState stays and one notification is emitted; in every other
\* case DeviceState is unchanged and no notification is emitted.
C5_CheckForcesObserved ==
    last.op = "check" =>
        IF Mismatch(last.expected, last.observed)
        THEN dev = [last.pre EXCEPT !.state = last.observed] /\ last.notified = 1
        ELSE dev = last.pre /\ last.notified = 0

\* C5, its cases: a check that corrected the power, and a check that found the
\* expected state although the device's power differed from it
C5_Witness ==
    /\ last.op = "check"
    /\ \/ Mismatch(last.expected, last.observed) /\ last.pre.state # last.observed
       \/ last.expected = last.observed /\ last.observed \in {STATE_ON, STATE_OFF}
            /\ last.pre.state # last.observed

\* C6: a device has at most one pending verification check, it is the one of
\* the most recent scheduling (its handle and its expectation are the stored
\* ones), and the expectation a firing check compares is the one it was
\* scheduled with: a cancelled check never fires.
C6_OnePendingCheck ==
    /\ Cardinality(timers) <= 1
    /\ \A x \in timers : x.handle = check_cancel /\ x.scheduled = check_expect
    /\ timers = {} => check_cancel = 0 /\ check_expect = None
    /\ last.op = "check" => last.expected = last.scheduled

\* C6, its case: a scheduling has cancelled the pending check and a check of
\* the other expectation is pending in its place
C6_Witness ==
    /\ last.cancelled # {}
    /\ \E x \in timers : \A c \in last.cancelled : c.scheduled # x.scheduled

\* C7: a request whose target power state differs from DeviceState's power, on
\* a device with a power sensor, leaves a verification check pending with the
\* target as its expectation: when it has returned, unless that check has fired
\* meanwhile, the check is pending.
C7_PowerRequestSchedulesCheck ==
    \A t \in Tasks :
        PowerChanging(t) /\ Finished(t) /\ ~task[t].checked
        => timers # {} /\ check_expect = task[t].state

\* the sensor's new reading differs from the event's old one
Changed(step) == step.new # None /\ ~(step.old # None /\ step.new = step.old)

\* C8: a sensor event with new reading on, different from the old reading, sets
\* power to on and on_by_remote to true when the power was not on, and leaves
\* both when the power was on.
C8_SensorOn ==
    last.op = "sensor" /\ Changed(last) /\ last.new = STATE_ON =>
        IF last.pre.state # STATE_ON
        THEN dev.state = STATE_ON /\ dev.on_by_remote
        ELSE dev.state = last.pre.state /\ dev.on_by_remote = last.pre.on_by_remote

\* C8, its cases: the event switched the device on; the event found a device
\* that a command had switched on
C8_Witness ==
    /\ last.op = "sensor" /\ Changed(last) /\ last.new = STATE_ON
    /\ \/ last.pre.state = STATE_OFF /\ dev.state = STATE_ON
       \/ last.pre.state = STATE_ON /\ ~last.pre.on_by_remote

\* C9: a sensor event with new reading off, different from the old reading,
\* sets power to off and on_by_remote to false, whatever they were and also
\* during a transmission.
C9_SensorOff ==
    last.op = "sensor" /\ Changed(last) /\ last.new = STATE_OFF =>
        dev.state = STATE_OFF /\ ~dev.on_by_remote

\* C9, its case: the event arrives during a transmission, the device having
\* been switched on by remote
C9_Witness ==
    /\ last.op = "sensor" /\ Changed(last) /\ last.new = STATE_OFF
    /\ last.pre.state = STATE_ON /\ last.pre.on_by_remote
    /\ \E t \in Tasks : InSequence(t)

\* C10: a sensor event whose new reading equals the old one, or that has no new
\* reading, changes nothing: DeviceState and the pending verification stay and
\* no notification is emitted.
C10_SameReadingIgnored ==
    [][last'.op = "sensor" /\ ~Changed(last')
         => /\ dev' = dev
            /\ check_expect' = check_expect
            /\ check_cancel' = check_cancel
            /\ timers' = timers
            /\ last'.notified = 0]_vars

\* C10, its case: the reading on is repeated while the device's power is off
\* and a verification is pending
C10_Witness ==
    /\ last.op = "sensor" /\ last.new = last.old /\ last.new = STATE_ON
    /\ last.pre.state = STATE_OFF
    /\ timers # {}

\* C11: when a step completes the transmission of a command sequence that sets
\* power, the device's power is the target of that sequence and on_by_remote is
\* false right after the step; and a request that ran alone and whose
\* transmission failed leaves on_by_remote as it found it.
C11_PowerSequenceCommits ==
    /\ last.done # None => dev.state = last.done /\ ~dev.on_by_remote
    /\ \A t \in Tasks :
          Finished(t) /\ task[t].failed /\ task[t].alone
              => dev.on_by_remote = task[t].dev0.on_by_remote

\* C12: the lock is never left with a request that has returned: its owner is
\* a request inside its sequence or the waiter it has just been handed to; a
\* waiting request waits for a lock that is held and that it is queued for (or
\* has been handed); and when no request is in its sequence or waiting, the
\* lock is free and nobody is queued, so the next request acquires it at once.
C12_LockReleasedOnEveryExit ==
    /\ lock # 0 => task[lock].pc \in {"wait", "send", "sleep"}
    /\ \A t \in Tasks :
          task[t].pc = "wait"
              => lock # 0 /\ (lock = t \/ \E i \in DOMAIN waiters : waiters[i] = t)
    /\ (\A t \in Tasks : task[t].pc = "idle") => lock = 0 /\ waiters = <<>>
    /\ \A t \in Tasks : InSequence(t) => lock = t

\* a request has ended on a failed transmission and the lock has passed to the
\* request that was waiting behind it
C12_Witness ==
    \E t \in Tasks, u \in Tasks :
        /\ Finished(t) /\ task[t].failed
        /\ task[u].pc = "wait" /\ lock = u

\* C13: once the controller has failed on a code of a request, no later code of
\* that request is transmitted: the request never again stands behind a
\* transmission that returned.
C13_FailureEndsTheRequest ==
    \A t \in Tasks : task[t].failed => task[t].pc # "sleep"

\* a transmission of request u begins in this step
Begins(u) == task'[u].pc = "send" /\ task[u].pc # "send"

\* C14: a transmission that returned is followed by the delay, taken by the
\* request that owns the lock; a transmission begins only when no other request
\* is inside a delay, and for the request itself only as its delay ends; a
\* media player's power code is the first code of its request and its key
\* paths follow in the order of the list, each with the code its path resolves
\* to; a light's pulses repeat the same code, one fewer left each time.
C14_OrderedAndSpaced ==
    [][/\ last'.op = "sent" => task'[last'.task].pc = "sleep" /\ lock' = last'.task
       /\ \A u \in Tasks :
            Begins(u) =>
              /\ lock' = u
              /\ \A t \in Tasks :
                    task[t].pc = "sleep"
                        => t = u /\ last'.op = "slept" /\ last'.task = u
              /\ kind = "media_player" =>
                    IF task'[u].part = "cmd"
                    THEN /\ task'[u].idx =
                              IF task[u].pc = "sleep" /\ task[u].part = "cmd"
                              THEN task[u].idx + 1 ELSE 1
                         /\ task'[u].code = Resolve(task'[u].commands[task'[u].idx]).code
                    ELSE task[u].pc # "sleep"
              /\ kind = "light" /\ task[u].pc = "sleep" /\ task[u].count > 1 =>
                    /\ task'[u].code = task[u].code
                    /\ task'[u].count = task[u].count - 1
      ]_vars

\* a media player is in the delay after the second key path of its request
\* while another request waits for the lock
C14_Witness ==
    \E u \in Tasks, t \in Tasks :
        /\ kind = "media_player"
        /\ task[u].pc = "sleep" /\ task[u].part = "cmd" /\ task[u].idx = 2
        /\ task[t].pc = "wait"

\* C15: a step of a request writes the entity's state to Home Assistant only
\* if no transmission of the request has failed and no command of it was left
\* unresolved.
C15_NotifyOnlyOnSuccess ==
    last.task \in Tasks /\ last.notified > 0
        => ~task[last.task].failed /\ ~task[last.task].unresolved

\* C16: the device's attributes change only in a step of the power sensor's
\* handler, of the verification check, or in the step that completes the
\* transmission of a full sequence; not when a request is called, waits for
\* the lock or transmits.
C16_AttributesChangeOnSuccess ==
    [][dev' # dev => last'.op \in {"sensor", "check"} \/ last'.done # None]_vars

\* C17: a request that ran alone and that ended with a command it could not
\* resolve to a code leaves every attribute of the device as it found it.
C17_UnresolvedLeavesDeviceState ==
    \A t \in Tasks :
        Finished(t) /\ task[t].unresolved /\ task[t].alone => dev = task[t].dev0

\* the node the first n keys lead to from the root of the command tree, if
\* every one of them is found in a branch
RECURSIVE NodeAt(_, _)
NodeAt(keys, n) ==
    IF n = 0 THEN [there |-> TRUE, node |-> Branch(commands)]
    ELSE LET up == NodeAt(keys, n - 1) IN
         IF up.there /\ ~up.node.leaf /\ keys[n] \in DOMAIN up.node.kids
         THEN [there |-> TRUE, node |-> up.node.kids[keys[n]]]
         ELSE [there |-> FALSE, node |-> Branch(<<>>)]

\* every non-final key is found in a branch and leads to a branch, and the
\* final key is found and leads to a leaf
Resolvable(keys) ==
    /\ \A i \in 1..(Len(keys) - 1) : NodeAt(keys, i).there /\ ~NodeAt(keys, i).node.leaf
    /\ NodeAt(keys, Len(keys)).there /\ NodeAt(keys, Len(keys)).node.leaf

\* the resolver has run on a path
Resolved == call.fn = "resolve" /\ ~call.pending

\* C18: the resolver yields a code exactly for the paths whose non-final keys
\* are each found in a branch and lead to a branch and whose final key is found
\* and leads to a leaf, and the code is that leaf's; for any other path (ending
\* on a branch, descending into a leaf, a key not found) it yields none.
C18_ResolveIffLeaf ==
    Resolved =>
        /\ call.result.found <=> Resolvable(call.keys)
        /\ call.result.found =>
              call.result.code = NodeAt(call.keys, Len(call.keys)).node.code
        /\ ~call.result.found => call.result.code = None

\* the resolver has yielded the code of a leaf two keys deep
C18_Witness ==
    /\ Resolved
    /\ Len(call.keys) = 2
    /\ call.result.found
    /\ call.result.code = commands[call.keys[1]].kids[call.keys[2]].code

\* C19: when the resolver fails because a key is looked up in a node that is a
\* leaf, the failure names that key, the one following the key that led to the
\* leaf.
C19_FailureNamesLookedUpKey ==
    Resolved =>
        \A i \in 2..Len(call.keys) :
            NodeAt(call.keys, i - 1).there /\ NodeAt(call.keys, i - 1).node.leaf
                => ~call.result.found /\ call.result.key = call.keys[i]

\* closest_match_index has returned
Matched == call.fn = "closest_match_index" /\ ~call.pending

\* the distance of the list's entry at index i (from 0) to the value v
Distance(list, i, v) ==
    IF list[i + 1] >= v THEN list[i + 1] - v ELSE v - list[i + 1]

\* C20: closest_match_index returns, for a non-empty strictly increasing list
\* and a value (None counting as 0), an index of the list whose entry is at
\* minimal distance to the value, the higher index on a tie; 0 for a value
\* below the first entry and the last index for a value no entry exceeds.
C20_ClosestMatchIsNearest ==
    Matched =>
        LET list == call.list
            v == IF call.value = NoInt THEN 0 ELSE call.value
            r == call.result
        IN  /\ r \in 0..(Len(list) - 1)
            /\ \A j \in 0..(Len(list) - 1) :
                  /\ Distance(list, r, v) <= Distance(list, j, v)
                  /\ Distance(list, r, v) = Distance(list, j, v) => j <= r
            /\ v < list[1] => r = 0
            /\ (\A j \in 1..Len(list) : list[j] <= v) => r = Len(list) - 1

\* closest_match_value has returned
ValueMatched == call.fn = "closest_match_value" /\ ~call.pending

\* C21: closest_match_value returns, for a present value and a non-empty list,
\* the entry at the first position among the positions whose entries are at
\* minimal distance to the value (on a tie in an increasing list the lower
\* entry); for an absent value or an empty list it returns None.
C21_ClosestValueIsFirstNearest ==
    ValueMatched =>
        LET list == call.list
            v == call.value
        IN  IF v = NoInt \/ list = <<>> THEN call.result = NoInt
            ELSE \E i \in 1..Len(list) :
                    /\ call.result = list[i]
                    /\ \A j \in 1..Len(list) : abs_diff(list[i], v) <= abs_diff(list[j], v)
                    /\ \A j \in 1..(i - 1) : abs_diff(list[j], v) > abs_diff(list[i], v)

\* the value lies midway between two entries of an increasing list and the
\* lower entry is returned
C21_Witness ==
    /\ ValueMatched
    /\ call.list = <<1, 3, 5>>
    /\ call.value = 4
    /\ call.result = 3

\* the brightness part of async_turn_on has run on a scale
Scaled == call.fn = "light_scale" /\ ~call.pending

\* the scale indices of the tracked value and of the target
CurrentIndex == closest_match_index(call.value, call.list)
TargetIndex == closest_match_index(call.target, call.list)

\* both indices were found: closest_match_index has not raised
Indexed == Scaled /\ CurrentIndex >= 0 /\ TargetIndex >= 0

\* the part hands pulses to send_remote_command
Pulsing == ~call.result.go /\ call.result.tk.pc = "send"

\* how many pulses of which code it hands over
Pulses == IF Pulsing THEN call.result.tk.count ELSE 0

\* C22: a step from a value to that same value, or to any target that maps to
\* the scale index of the tracked value, is a plan of no steps: no increase or
\* decrease pulse is handed to the controller and the attribute stays.
C22_SameIndexSendsNothing ==
    Indexed /\ (call.value = call.target \/ CurrentIndex = TargetIndex)
        => /\ StepPlan(CurrentIndex, TargetIndex, Len(call.list)).steps = 0
           /\ Pulses = 0
           /\ call.result.go
           /\ call.result.w.dev = dev

\* the target differs from the tracked value and maps to the same index, a
\* boundary of the scale, and nothing is sent
C22_Witness ==
    /\ Indexed
    /\ call.value # call.target
    /\ CurrentIndex = TargetIndex
    /\ TargetIndex = Len(call.list) - 1
    /\ Len(call.list) > 1
    /\ Pulses = 0

\* the target's index is the first or the last of the scale
AtBoundary == TargetIndex = 0 \/ TargetIndex = Len(call.list) - 1

\* C23 as stated: a step to a target whose index is 0 or N - 1 has N steps
\* for every starting index, the target's own index included.
C23_BoundaryAlwaysResyncs ==
    Indexed /\ AtBoundary => Pulses = Len(call.list)

\* C23 amended: a step to a target whose index is 0 or N - 1 has N steps for
\* every starting index other than the target's; from the target's own index
\* it has none.
C23_BoundaryResyncsWhenMoving ==
    Indexed /\ AtBoundary
        => Pulses = (IF CurrentIndex = TargetIndex THEN 0 ELSE Len(call.list))

\* a step from the neighbouring index to the last index of a scale of four
\* hands over four pulses
C23_Witness ==
    /\ Indexed
    /\ Len(call.list) = 4
    /\ CurrentIndex = 2
    /\ TargetIndex = 3
    /\ Pulses = 4

\* C27: a relative step to a target index t that is no boundary of the scale,
\* from a current index c other than t, hands over |t - c| pulses, of the
\* decrease command if t < c and of the increase command if t > c, and the
\* tracked attribute becomes scale[t].
C27_RelativeStepsMatchDistance ==
    Indexed /\ ~AtBoundary /\ TargetIndex # CurrentIndex
        => /\ Pulsing
           /\ Pulses = (IF TargetIndex < CurrentIndex THEN CurrentIndex - TargetIndex
                        ELSE TargetIndex - CurrentIndex)
           /\ call.result.tk.code =
                 (IF TargetIndex < CurrentIndex
                  THEN commands[CMD_BRIGHTNESS_DECREASE].code
                  ELSE commands[CMD_BRIGHTNESS_INCREASE].code)
           /\ call.result.w.dev.brightness = call.list[TargetIndex + 1]

\* two pulses of the decrease command go from the last index of a scale of
\* four to its second entry
C27_Witness ==
    /\ Indexed
    /\ Len(call.list) = 4
    /\ CurrentIndex = 3
    /\ TargetIndex = 1
    /\ Pulses = 2
    /\ call.result.tk.code = commands[CMD_BRIGHTNESS_DECREASE].code

\* the requests that ask for no change of power
NonPowerOps == {"oscillate", "set_direction", "select_source"} \cup MediaKeys

\* C26: a step of a request that asks for no change of power (fan oscillate or
\* set_direction; media player key or source) leaves the device's power as it
\* is and schedules no verification check.
C26_NonPowerRequestKeepsPower ==
    [][last'.task \in Tasks /\ task'[last'.task].op \in NonPowerOps
          => dev'.state = dev.state /\ timers' \subseteq timers]_vars

\* C28: a fan or media-player request that ends on a path it cannot resolve
\* to a code has transmitted nothing: it has never stood in a transmission,
\* neither of the power code nor of an earlier path.
C28_UnresolvedSendsNothing ==
    \A t \in Tasks :
        kind \in {"fan", "media_player"} /\ task[t].unresolved => task[t].part = "none"

\* the media player's "on" and "off" are one code: a power toggle
PowerToggle ==
    /\ kind = "media_player"
    /\ HasCmd("on") /\ HasCmd("off")
    /\ commands["on"].leaf /\ commands["off"].leaf
    /\ commands["on"].code = commands["off"].code

\* C30: on a media player whose "on" and "off" are one code, a request begins
\* the transmission of the power code only in a step in which its target
\* differs from the device's power as the step finds it, the step in which it
\* got the lock; a request whose target is the power found sends none.
C30_TogglePowerOnlyOnChange ==
    [][\A u \in Tasks :
          PowerToggle /\ Begins(u) /\ task'[u].part = "power"
              => /\ last'.op \notin {"sent", "slept"}
                 /\ task'[u].state # dev.state]_vars

\* a request for the power the device has got the lock and went straight to
\* its key path: its first transmission is not the power code
C30_Witness ==
    /\ PowerToggle
    /\ last.task \in Tasks
    /\ last.op \notin {"sent", "slept", "send_failed"}
    /\ task[last.task].pc = "send"
    /\ task[last.task].part = "cmd"
    /\ task[last.task].state = dev.state

\* C25: on_by_remote is true only while the device's power is on: in no
\* reachable state is on_by_remote true and the power off.
C25_RemoteOnlyWhileOn ==
    dev.on_by_remote => dev.state = STATE_ON

\* a verification check has run while the device was on by remote, and left
\* it so
C25_Witness ==
    /\ dev.on_by_remote
    /\ dev.state = STATE_ON
    /\ last.op = "check"
    /\ last.expected \in {STATE_ON, STATE_OFF}

\* C24: after the entity has been removed no verification check of it runs.
C24_NoCheckAfterRemoval ==
    removed => last.op # "check"

\* C29: every request that waits for the device's lock eventually gets it and
\* ends, whatever succeeds, fails, raises or stays unresolved meanwhile,
\* provided every send returns or raises.
C29_WaitingRequestsFinish ==
    \A t \in Tasks : (task[t].pc = "wait") ~> (task[t].pc = "idle")

\* a request waits for the lock behind a request whose transmission has failed
\* before
C29_Witness ==
    \E t \in Tasks, u \in Tasks :
        /\ task[t].pc = "wait" /\ lock = u /\ u # t
        /\ InSequence(u) /\ task[u].failed

\* C31: a media-player request that carries key paths (volume, mute, channel,
\* source) and has ended without a failed transmission, an exception or an
\* unresolved path has transmitted the code of every path of its list, the
\* last of them last, whatever the power was when it was issued: its last
\* transmission is that of its last path, not that of a power code.
C31_KeyPathsAreSent ==
    \A t \in Tasks :
        /\ kind = "media_player"
        /\ Finished(t)
        /\ task[t].commands # <<>>
        /\ ~task[t].failed /\ ~task[t].raised /\ ~task[t].unresolved
        => /\ task[t].part = "cmd"
           /\ task[t].idx = Len(task[t].commands)

=============================================================================
